---- MODULE Spec2Model ----
(***************************************************************************)
(* Model of journal_bot.py: one run is                                     *)
(*   run_journal_bot -> commit_to_github -> setup_repo,                    *)
(*   create_journal_entry, git add / diff --staged / commit / push.        *)
(* The file system, the git repository and the local clock persist between *)
(* runs; the clock may advance between any two steps of a run.             *)
(***************************************************************************)
EXTENDS Integers, Sequences, FiniteSets, TLC

\* ------------------------------------------------------------------ bounds
MaxRuns == 2
TicksPerDay == 2
MaxTime == 2
MaxBlank == 1

\* ------------------------------------------------------- program constants
MaxPrompts == 3

GITHUB_USERNAME == "user"

GITHUB_EMAIL == "user@example.com"

README_TEXT ==
  "# Daily Journal\n\nThis repository contains my daily journal entries, automatically committed by my journal bot."

JOURNAL_PROMPTS ==
  << "What went well today?",
     "What could have gone better?",
     "What am I grateful for today?",
     "What did I learn today?",
     "What's one thing I want to focus on tomorrow?",
     "What was the best part of my day?",
     "What challenged me today?",
     "How did I take care of myself today?",
     "What's something I accomplished today?",
     "What's something I'm looking forward to?" >>

\* ------------------------------------------------------------ the calendar
\* The local clock counts ticks; tick 0 is midnight of EpochDate.
EpochDate == [year |-> 2023, month |-> 12, day |-> 31]

IsLeap(y) == (y % 4 = 0 /\ y % 100 # 0) \/ y % 400 = 0

DaysInMonth(y, m) ==
  IF m = 2 THEN (IF IsLeap(y) THEN 29 ELSE 28)
  ELSE IF m \in {4, 6, 9, 11} THEN 30 ELSE 31

NextDate(d) ==
  IF d.day < DaysInMonth(d.year, d.month)
    THEN [d EXCEPT !.day = d.day + 1]
  ELSE IF d.month < 12
    THEN [year |-> d.year, month |-> d.month + 1, day |-> 1]
  ELSE [year |-> d.year + 1, month |-> 1, day |-> 1]

RECURSIVE DateOfDay(_)
DateOfDay(n) == IF n = 0 THEN EpochDate ELSE NextDate(DateOfDay(n - 1))

DayOf(t) == t \div TicksPerDay

\* datetime.datetime.now(): the calendar date and time of day at tick t
Now(t) ==
  LET secs == ((t % TicksPerDay) * 86400) \div TicksPerDay
  IN  [date |-> DateOfDay(DayOf(t)),
       hour |-> secs \div 3600,
       minute |-> (secs % 3600) \div 60,
       second |-> secs % 60,
       tick |-> t]

\* today.replace(hour=0, minute=0, second=0, microsecond=0).timestamp()
Midnight(today) == DayOf(today.tick) * TicksPerDay

\* ---------------------------------------------------------------- strftime
Digit == <<"0", "1", "2", "3", "4", "5", "6", "7", "8", "9">>

RECURSIVE NumStr(_)
NumStr(n) == IF n < 10 THEN Digit[n + 1]
             ELSE NumStr(n \div 10) \o Digit[(n % 10) + 1]

Pad2(n) == IF n < 10 THEN "0" \o NumStr(n) ELSE NumStr(n)

MonthNameLower ==
  << "january", "february", "march", "april", "may", "june", "july",
     "august", "september", "october", "november", "december" >>

\* strftime('%Y-%m-%d')
DateStr(dt) ==
  NumStr(dt.date.year) \o "-" \o Pad2(dt.date.month) \o "-" \o Pad2(dt.date.day)

\* strftime('%Y-%m-%d %H:%M:%S')
TimestampStr(dt) ==
  DateStr(dt) \o " " \o Pad2(dt.hour) \o ":" \o Pad2(dt.minute) \o ":" \o Pad2(dt.second)

\* f"{month_name}-{year_str}"
MonthYear(dt) == MonthNameLower[dt.date.month] \o "-" \o NumStr(dt.date.year)

\* strftime('%d')
DayNumber(dt) == Pad2(dt.date.day)

JournalsDir == "journals"

MonthDir(dt) == JournalsDir \o "/" \o MonthYear(dt)

DayDir(dt) == MonthDir(dt) \o "/" \o DayNumber(dt)

\* os.path.join(day_dir, f"{date_str}.md"), relative to REPO_PATH
FilePath(dt) == DayDir(dt) \o "/" \o DateStr(dt) \o ".md"

\* --------------------------------------------------- text typed at a prompt
\* A line of input is a sequence of characters (one-character strings).
Whitespace == {" "}

DecimalDigits == {"0", "1", "2", "3", "4", "5", "6", "7", "8", "9"}

\* str.isdigit() also accepts digits that are not decimal, e.g. superscripts
OtherDigits == {"²"}

\* the lines a user may type
Inputs ==
  { <<>>,
    <<" ">>,
    <<"d", "o", "n", "e">>,
    <<" ", "D", "o", "N", "e", " ">>,
    <<"0", "3">>,
    <<"1", "1">>,
    <<"²">>,
    <<" ", "h", "i", " ">> }

\* the lines typed in the runs of the whole program
RunInputs == { <<"d", "o", "n", "e">>, <<"0", "3">>, <<"²">> }

RECURSIVE LStrip(_)
LStrip(s) == IF s # <<>> /\ Head(s) \in Whitespace THEN LStrip(Tail(s)) ELSE s

RECURSIVE RStrip(_)
RStrip(s) == IF s # <<>> /\ s[Len(s)] \in Whitespace
               THEN RStrip(SubSeq(s, 1, Len(s) - 1)) ELSE s

\* str.strip()
Strip(s) == RStrip(LStrip(s))

LowerChar(c) ==
  CASE c = "D" -> "d" [] c = "O" -> "o" [] c = "N" -> "n" [] c = "E" -> "e"
    [] c = "H" -> "h" [] c = "I" -> "i" [] OTHER -> c

\* str.lower()
Lower(s) == [i \in 1..Len(s) |-> LowerChar(s[i])]

\* str.isdigit()
IsDigit(s) == s # <<>> /\ \A i \in 1..Len(s) : s[i] \in DecimalDigits \cup OtherDigits

\* int(s) raises ValueError unless every character is a decimal digit
IntRaises(s) == s = <<>> \/ \E i \in 1..Len(s) : s[i] \notin DecimalDigits

DigitValue(c) == CHOOSE n \in 0..9 : Digit[n + 1] = c

RECURSIVE IntOf(_)
IntOf(s) == IF s = <<>> THEN 0
            ELSE 10 * IntOf(SubSeq(s, 1, Len(s) - 1)) + DigitValue(s[Len(s)])

\* the Python string made of the characters of s
RECURSIVE Text(_)
Text(s) == IF s = <<>> THEN "" ELSE Head(s) \o Text(Tail(s))

\* ------------------------------------------------------------ small helpers
Put(f, k, v) == [x \in DOMAIN f \cup {k} |-> IF x = k THEN v ELSE f[x]]

EmptyMap == [x \in {} |-> ""]

Info(m) == [level |-> "INFO", msg |-> m]

Error(m) == [level |-> "ERROR", msg |-> m]

NoConfig == [name |-> "", email |-> ""]

Identity == [name |-> GITHUB_USERNAME, email |-> GITHUB_EMAIL]

InitialCommit == [message |-> "Initial commit: Add README",
                  tree |-> Put(EmptyMap, "README.md", README_TEXT)]

\* the tree of the last commit (empty before the first commit)
HeadTree(cs) == IF cs = <<>> THEN EmptyMap ELSE cs[Len(cs)].tree

\* ------------------------------------------------------------------- state
VARIABLES
  now,               \* the local clock, in ticks
  gitDir,            \* os.path.isdir(REPO_PATH/.git)
  config,            \* user.name / user.email of the repository
  remotes,           \* names of the configured remotes
  files,             \* path -> [content, mtime], files under REPO_PATH
  dirs,              \* directories under REPO_PATH
  index,             \* the git index: path -> content
  commits,           \* the commit history, oldest first
  pushed,            \* number of commits the remote "origin" has received
  runs,              \* runs of run_journal_bot started so far
  pc,                \* position of the current run
  repo,              \* what setup_repo returned to commit_to_github
  today,             \* datetime.now() taken by create_journal_entry (line 69)
  entry_path,        \* what create_journal_entry returned
  selected_prompts,  \* create_journal_entry's list
  count,             \* create_journal_entry's loop counter
  result,            \* outcome of commit_to_github
  log,               \* records the run has logged
  steps,             \* history: steps the run has executed, in order
  raised,            \* history: the step of the run that raised, and what
  inputs,            \* history: the lines input() has returned in the run
  asked,             \* history: calls of input() in the run
  commits0,          \* history: the commit history when the run started
  setupPre,          \* history: .git and README.md as setup_repo found them
  diffEmpty,         \* history: what `not repo.git.diff('--staged')` was
  committed,         \* history: the entry commit of the run succeeded
  pushAttempts,      \* history: git push invocations of the run
  lastWrite          \* history: path -> what create_journal_entry wrote, until edited

vars == << now, gitDir, config, remotes, files, dirs, index, commits, pushed,
           runs, pc, repo, today, entry_path, selected_prompts, count, result,
           log, steps, raised, inputs, asked, commits0, setupPre,
           diffEmpty, committed, pushAttempts, lastWrite >>

world == << now, gitDir, config, remotes, files, dirs, index, commits, pushed >>

NoRaise == [step |-> "none", exc |-> "none"]

NoSetup == [called |-> FALSE, gitDir |-> FALSE, files |-> EmptyMap]

\* the state of the directory before the first run
RepoStates ==
  { [gitDir |-> FALSE, files |-> EmptyMap, commits |-> <<>>],
    [gitDir |-> FALSE,
     files |-> Put(EmptyMap, "README.md", [content |-> "# Notes", mtime |-> 0]),
     commits |-> <<>>],
    [gitDir |-> TRUE,
     files |-> Put(EmptyMap, "README.md", [content |-> README_TEXT, mtime |-> 0]),
     commits |-> <<InitialCommit>>] }

RemoteStates == { {}, {"origin"} }

Init ==
  /\ now = 0
  /\ \E r \in RepoStates :
       /\ gitDir = r.gitDir
       /\ files = r.files
       /\ commits = r.commits
       /\ index = HeadTree(r.commits)
       /\ config = IF r.gitDir THEN Identity ELSE NoConfig
  /\ remotes \in RemoteStates
  /\ dirs = {}
  /\ pushed = 0
  /\ runs = 0
  /\ pc = "idle"
  /\ repo = "unset"
  /\ today = Now(0)
  /\ entry_path = ""
  /\ selected_prompts = <<>>
  /\ count = 1
  /\ result = "none"
  /\ log = <<>>
  /\ steps = <<>>
  /\ raised = NoRaise
  /\ inputs = <<>>
  /\ asked = 0
  /\ commits0 = commits
  /\ setupPre = NoSetup
  /\ diffEmpty = "unknown"
  /\ committed = FALSE
  /\ pushAttempts = 0
  /\ lastWrite = EmptyMap

\* ------------------------------------------------- decisions of the code
\* `except Exception`: KeyboardInterrupt derives from BaseException only
ExceptionSubclasses == {"GitCommandError", "OSError", "EOFError", "ValueError"}

Caught_GitAndOSOnly(exc) == exc \in {"GitCommandError", "OSError"}

Caught(exc) == exc \in ExceptionSubclasses

\* os.path.getmtime(file_path) >= midnight of today
IsFresh_Strict(mtime, t) == mtime > Midnight(t)

IsFresh(mtime, t) == mtime >= Midnight(t)

\* os.path.exists(file_path) and IsFresh
SkipCreation(fs, path, t) == path \in DOMAIN fs /\ IsFresh(fs[path].mtime, t)

\* not os.path.exists(readme_path)
NeedsReadme_Always(fs) == TRUE

NeedsReadme(fs) == "README.md" \notin DOMAIN fs

\* `if not repo: return False`
AfterSetup_NoCheck(r) == "compose"

AfterSetup(r) == IF r = "None" THEN "done" ELSE "compose"

\* not repo.git.diff('--staged')
DiffIsEmpty_Never(idx, cs) == FALSE

DiffIsEmpty(idx, cs) == idx = HeadTree(cs)

\* "origin" in [remote.name for remote in repo.remotes]
HasOrigin_Always(rs) == TRUE

HasOrigin(rs) == "origin" \in rs

\* f"Add journal entry for {today}", today taken anew at line 155
CommitMessage(t) == "Add journal entry for " \o DateStr(Now(t))

\* the pushes of one run
PushOnce_Retry(n) == n + 2

PushOnce(n) == n + 1

RECURSIVE Sections(_)
Sections(ps) ==
  IF ps = <<>> THEN ""
  ELSE "## " \o Head(ps) \o "\n\n_Write your thoughts here..._\n\n" \o Sections(Tail(ps))

\* the text create_journal_entry writes
Content(date_str, ps, stamp) ==
  "# Journal Entry: " \o date_str \o "\n\n" \o Sections(ps)
    \o "\nCreated automatically by Journal Bot on " \o stamp

\* what one line of input does to (selected_prompts, count)
Select(user_input, ps, c) ==
  IF IsDigit(user_input) /\ 1 <= IntOf(user_input) /\ IntOf(user_input) <= Len(JOURNAL_PROMPTS)
    THEN [ps |-> Append(ps, JOURNAL_PROMPTS[IntOf(user_input)]), c |-> c + 1]
  ELSE IF user_input # <<>>
    THEN [ps |-> Append(ps, Text(user_input)), c |-> c + 1]
  ELSE [ps |-> ps, c |-> c]

IsDone(user_input) == Lower(user_input) = <<"d", "o", "n", "e">>

Step(name) == IF steps # <<>> /\ steps[Len(steps)] = name THEN steps
              ELSE Append(steps, name)

\* an exception raised in the body of commit_to_github ends the run
RunFails(name, exc, lg) ==
  /\ raised' = [step |-> name, exc |-> exc]
  /\ result' = IF Caught(exc) THEN "False" ELSE "raised"
  /\ log' = IF Caught(exc)
              THEN lg \o << Error("Error committing to GitHub"),
                            Error("Journal bot failed to complete.") >>
              ELSE lg
  /\ pc' = "done"

\* commit_to_github returns val to run_journal_bot
RunReturns(val, lg) ==
  /\ result' = val
  /\ log' = Append(lg, IF val = "True"
                         THEN Info("Journal bot completed successfully!")
                         ELSE Error("Journal bot failed to complete."))
  /\ pc' = "done"
  /\ UNCHANGED raised

\* ----------------------------------------------------------------- actions
\* run_journal_bot is started
StartRun ==
  /\ pc \in {"idle", "done"}
  /\ runs < MaxRuns
  /\ runs' = runs + 1
  /\ pc' = "setup"
  /\ repo' = "unset"
  /\ today' = Now(0)
  /\ entry_path' = ""
  /\ selected_prompts' = <<>>
  /\ count' = 1
  /\ result' = "none"
  /\ log' = <<Info("Running journal bot...")>>
  /\ steps' = <<>>
  /\ raised' = NoRaise
  /\ inputs' = <<>>
  /\ asked' = 0
  /\ commits0' = commits
  /\ setupPre' = NoSetup
  /\ diffEmpty' = "unknown"
  /\ committed' = FALSE
  /\ pushAttempts' = 0
  /\ UNCHANGED << world, lastWrite >>

SetupRank(p) ==
  CASE p = "init" -> 1 [] p = "config" -> 2 [] p = "write" -> 3
    [] p = "add" -> 4 [] p = "commit" -> 5 [] p = "open" -> 6 [] OTHER -> 7

\* the calls setup_repo makes, by branch
SetupPoints(fresh, needs) ==
  IF ~fresh THEN {"open"}
  ELSE IF needs THEN {"init", "config", "write", "add", "commit", "open"}
  ELSE {"init", "config", "open"}

\* setup_repo, called first by commit_to_github; f is the call that raises
SetupRepo(f) ==
  LET fresh == ~gitDir
      needs == NeedsReadme(files)
      did(p) == p \in SetupPoints(fresh, needs) /\ SetupRank(f) > SetupRank(p)
      exc == IF f = "write" THEN "OSError" ELSE "GitCommandError"
      lg1 == IF fresh THEN Append(log, Info("Initializing git repository...")) ELSE log
      lg2 == IF did("commit")
               THEN Append(lg1, Info("Created README and made initial commit"))
               ELSE lg1
      idx == IF did("add") THEN Put(index, "README.md", README_TEXT) ELSE index
      ret == IF f = "none" THEN "handle" ELSE "None"
  IN
  /\ pc = "setup"
  /\ f \in SetupPoints(fresh, needs) \cup {"none"}
  /\ steps' = Step("setup")
  /\ setupPre' = [called |-> TRUE, gitDir |-> gitDir, files |-> files]
  /\ gitDir' = (gitDir \/ did("init"))
  /\ config' = IF did("config") THEN Identity ELSE config
  /\ files' = IF did("write")
                THEN Put(files, "README.md", [content |-> README_TEXT, mtime |-> now])
                ELSE files
  /\ index' = idx
  /\ commits' = IF did("commit")
                  THEN Append(commits, [message |-> InitialCommit.message, tree |-> idx])
                  ELSE commits
  /\ IF f = "none"
       THEN /\ repo' = "handle"
            /\ pc' = AfterSetup("handle")
            /\ log' = lg2
            /\ UNCHANGED << raised, result >>
       ELSE /\ raised' = [step |-> "setup", exc |-> exc]
            /\ IF Caught(exc)
                 THEN /\ repo' = "None"
                      /\ pc' = AfterSetup("None")
                      /\ result' = IF AfterSetup("None") = "done" THEN "False" ELSE result
                      /\ log' = lg2 \o
                           ( <<Error("Error setting up repository")>> \o
                             IF AfterSetup("None") = "done"
                               THEN <<Error("Journal bot failed to complete.")>>
                               ELSE <<>> )
                 ELSE /\ repo' = "unset"
                      /\ pc' = "done"
                      /\ result' = "raised"
                      /\ log' = lg2
  /\ UNCHANGED << now, remotes, dirs, pushed, runs, today, entry_path,
                  selected_prompts, count, inputs, asked, commits0,
                  diffEmpty, committed, pushAttempts, lastWrite >>

\* create_journal_entry, lines 69-97: the date, the directories, the skip test
ComposeBegin(fail) ==
  LET t == Now(now)
      path == FilePath(t)
      wanted == {JournalsDir, MonthDir(t), DayDir(t)}
      lg1 == IF JournalsDir \notin dirs
               THEN Append(log, Info("Created journals directory")) ELSE log
      lg2 == IF MonthDir(t) \notin dirs
               THEN Append(lg1, Info("Created month directory")) ELSE lg1
      lg3 == IF DayDir(t) \notin dirs
               THEN Append(lg2, Info("Created day directory")) ELSE lg2
  IN
  /\ pc = "compose"
  /\ fail => ~(wanted \subseteq dirs)
  /\ steps' = Step("compose")
  /\ today' = t
  /\ IF fail
       THEN /\ RunFails("compose", "OSError", log)
            /\ UNCHANGED << dirs, entry_path >>
       ELSE /\ dirs' = dirs \cup wanted
            /\ UNCHANGED << raised, result >>
            /\ IF SkipCreation(files, path, t)
                 THEN /\ log' = Append(lg3, Info("Journal entry already exists. Skipping creation."))
                      /\ entry_path' = path
                      /\ pc' = "stage"
                 ELSE /\ log' = lg3
                      /\ entry_path' = entry_path
                      /\ pc' = "prompt"
  /\ selected_prompts' = <<>>
  /\ count' = 1
  /\ UNCHANGED << now, gitDir, config, remotes, files, index, commits, pushed,
                  runs, repo, inputs, asked, commits0, setupPre, diffEmpty,
                  committed, pushAttempts, lastWrite >>

\* one iteration of the prompt loop, lines 111-122; input() may raise
PromptInput(inp, exc) ==
  LET user_input == Strip(inp)
      sel == Select(user_input, selected_prompts, count)
  IN
  /\ pc = "prompt"
  /\ count <= MaxPrompts
  /\ (exc = "none" /\ ~IsDone(user_input) /\ user_input = <<>>) => asked < MaxBlank
  /\ steps' = Step("prompt")
  /\ asked' = asked + 1
  /\ IF exc # "none"
       THEN /\ RunFails("prompt", exc, log)
            /\ UNCHANGED << selected_prompts, count, inputs >>
       ELSE /\ inputs' = Append(inputs, inp)
            /\ IF IsDone(user_input)
                 THEN /\ pc' = "write"
                      /\ UNCHANGED << selected_prompts, count, raised, result, log >>
               ELSE IF IsDigit(user_input) /\ IntRaises(user_input)
                 THEN /\ RunFails("prompt", "ValueError", log)
                      /\ UNCHANGED << selected_prompts, count >>
               ELSE /\ selected_prompts' = sel.ps
                    /\ count' = sel.c
                    /\ pc' = IF sel.c <= MaxPrompts THEN "prompt" ELSE "write"
                    /\ UNCHANGED << raised, result, log >>
  /\ UNCHANGED << world, runs, repo, today, entry_path, commits0, setupPre,
                  diffEmpty, committed, pushAttempts, lastWrite >>

\* create_journal_entry, lines 124-135: build the text and write the file
WriteEntry(fail) ==
  LET path == FilePath(today)
      content == Content(DateStr(today), selected_prompts, TimestampStr(Now(now)))
      file == [content |-> content, mtime |-> now]
  IN
  /\ pc = "write"
  /\ steps' = Step("write")
  /\ IF fail
       THEN /\ RunFails("write", "OSError", log)
            /\ UNCHANGED << files, entry_path, lastWrite >>
       ELSE /\ files' = Put(files, path, file)
            /\ lastWrite' = Put(lastWrite, path, [file |-> file, run |-> runs])
            /\ entry_path' = path
            /\ log' = Append(log, Info("Created journal entry"))
            /\ pc' = "stage"
            /\ UNCHANGED << raised, result >>
  /\ UNCHANGED << now, gitDir, config, remotes, dirs, index, commits, pushed,
                  runs, repo, today, selected_prompts, count, inputs, asked,
                  commits0, setupPre, diffEmpty, committed, pushAttempts >>

\* repo.git.add(str(relative_path)), lines 146-149
Stage(fail) ==
  /\ pc = "stage"
  /\ steps' = Step("stage")
  /\ IF fail
       THEN /\ RunFails("stage", "GitCommandError", log)
            /\ UNCHANGED index
       ELSE /\ index' = Put(index, entry_path, files[entry_path].content)
            /\ pc' = "diff"
            /\ UNCHANGED << raised, result, log >>
  /\ UNCHANGED << now, gitDir, config, remotes, files, dirs, commits, pushed,
                  runs, repo, today, entry_path, selected_prompts, count,
                  inputs, asked, commits0, setupPre, diffEmpty, committed,
                  pushAttempts, lastWrite >>

\* `if not repo.git.diff('--staged')`, lines 151-153
DiffCheck(fail) ==
  /\ pc = "diff"
  /\ steps' = Step("diff")
  /\ IF fail
       THEN /\ RunFails("diff", "GitCommandError", log)
            /\ UNCHANGED diffEmpty
     ELSE IF DiffIsEmpty(index, commits)
       THEN /\ diffEmpty' = "True"
            /\ RunReturns("False", Append(log, Info("No changes to commit")))
       ELSE /\ diffEmpty' = IF index = HeadTree(commits) THEN "True" ELSE "False"
            /\ pc' = "commit"
            /\ UNCHANGED << raised, result, log >>
  /\ UNCHANGED << world, runs, repo, today, entry_path, selected_prompts, count,
                  inputs, asked, commits0, setupPre, committed,
                  pushAttempts, lastWrite >>

\* repo.git.commit('-m', commit_message), lines 155-157;
\* git refuses to commit when nothing is staged
Commit(fail) ==
  /\ pc = "commit"
  /\ index = HeadTree(commits) => fail
  /\ steps' = Step("commit")
  /\ IF fail
       THEN /\ RunFails("commit", "GitCommandError", log)
            /\ UNCHANGED << commits, committed >>
       ELSE /\ commits' = Append(commits, [message |-> CommitMessage(now), tree |-> index])
            /\ committed' = TRUE
            /\ pc' = "push"
            /\ UNCHANGED << raised, result, log >>
  /\ UNCHANGED << now, gitDir, config, remotes, files, dirs, index, pushed,
                  runs, repo, today, entry_path, selected_prompts, count,
                  inputs, asked, commits0, setupPre, diffEmpty,
                  pushAttempts, lastWrite >>

\* lines 160-168: push to origin if there is one, then return True;
\* git cannot push to a remote that does not exist
PushOrSkip(fail) ==
  /\ pc = "push"
  /\ IF HasOrigin(remotes)
       THEN /\ "origin" \notin remotes => fail
            /\ steps' = Step("push")
            /\ pushAttempts' = PushOnce(pushAttempts)
            /\ IF fail
                 THEN /\ RunFails("push", "GitCommandError",
                                  Append(log, Info("Pushing changes to remote repository...")))
                      /\ UNCHANGED pushed
                 ELSE /\ pushed' = Len(commits)
                      /\ RunReturns("True",
                           log \o << Info("Pushing changes to remote repository..."),
                                     Info("Successfully committed journal entry") >>)
       ELSE /\ ~fail
            /\ RunReturns("True",
                 log \o << Info("No remote repository configured. Skipping push."),
                           Info("To push manually, set up a remote repository"),
                           Info("Successfully committed journal entry") >>)
            /\ UNCHANGED << steps, pushAttempts, pushed >>
  /\ UNCHANGED << now, gitDir, config, remotes, files, dirs, index, commits,
                  runs, repo, today, entry_path, selected_prompts, count,
                  inputs, asked, commits0, setupPre, diffEmpty, committed,
                  lastWrite >>

\* the local clock advances, between runs and while a run blocks on input()
Tick ==
  /\ now < MaxTime
  /\ pc \in {"idle", "done", "prompt"}
  /\ now' = now + 1
  /\ UNCHANGED << gitDir, config, remotes, files, dirs, index, commits, pushed,
                  runs, pc, repo, today, entry_path, selected_prompts, count,
                  result, log, steps, raised, inputs, asked, commits0,
                  setupPre, diffEmpty, committed, pushAttempts, lastWrite >>

\* between runs the user fills in an entry the bot has written
ExternalEdit(p) ==
  /\ pc = "done"
  /\ p \in DOMAIN lastWrite
  /\ files' = Put(files, p, [content |-> files[p].content \o "\nMy thoughts.",
                             mtime |-> now])
  /\ lastWrite' = [q \in DOMAIN lastWrite \ {p} |-> lastWrite[q]]
  /\ UNCHANGED << now, gitDir, config, remotes, dirs, index, commits, pushed,
                  runs, pc, repo, today, entry_path, selected_prompts, count,
                  result, log, steps, raised, inputs, asked, commits0,
                  setupPre, diffEmpty, committed, pushAttempts >>

SetupFailures == {"none", "init", "config", "write", "add", "commit", "open"}

InputFailures == {"none", "EOFError", "KeyboardInterrupt"}

Next ==
  \/ StartRun
  \/ \E f \in SetupFailures : SetupRepo(f)
  \/ \E fail \in BOOLEAN : ComposeBegin(fail)
  \/ \E inp \in RunInputs, exc \in InputFailures : PromptInput(inp, exc)
  \/ \E fail \in BOOLEAN : WriteEntry(fail)
  \/ \E fail \in BOOLEAN : Stage(fail)
  \/ \E fail \in BOOLEAN : DiffCheck(fail)
  \/ \E fail \in BOOLEAN : Commit(fail)
  \/ \E fail \in BOOLEAN : PushOrSkip(fail)
  \/ Tick
  \/ \E p \in DOMAIN files : ExternalEdit(p)

Spec == Init /\ [][Next]_vars

\* create_journal_entry alone, called once on an existing repository, with
\* every line of Inputs
InitEntry ==
  /\ now = 0
  /\ gitDir = TRUE
  /\ files = Put(EmptyMap, "README.md", [content |-> README_TEXT, mtime |-> 0])
  /\ commits = <<InitialCommit>>
  /\ index = HeadTree(commits)
  /\ config = Identity
  /\ remotes = {}
  /\ dirs = {}
  /\ pushed = 0
  /\ runs = 1
  /\ pc = "compose"
  /\ repo = "handle"
  /\ today = Now(0)
  /\ entry_path = ""
  /\ selected_prompts = <<>>
  /\ count = 1
  /\ result = "none"
  /\ log = <<Info("Running journal bot...")>>
  /\ steps = <<"setup">>
  /\ raised = NoRaise
  /\ inputs = <<>>
  /\ asked = 0
  /\ commits0 = commits
  /\ setupPre = [called |-> TRUE, gitDir |-> TRUE, files |-> files]
  /\ diffEmpty = "unknown"
  /\ committed = FALSE
  /\ pushAttempts = 0
  /\ lastWrite = EmptyMap

NextEntry ==
  \/ \E fail \in BOOLEAN : ComposeBegin(fail)
  \/ \E inp \in Inputs, exc \in InputFailures : PromptInput(inp, exc)
  \/ \E fail \in BOOLEAN : WriteEntry(fail)
  \/ Tick

SpecEntry == InitEntry /\ [][NextEntry]_vars

TypeOK ==
  /\ pc \in {"idle", "setup", "compose", "prompt", "write", "stage", "diff",
             "commit", "push", "done"}
  /\ count \in 1..(MaxPrompts + 1)
  /\ Len(selected_prompts) = count - 1
  /\ result \in {"none", "True", "False", "raised"}

\* -------------------------------------------------------------- properties
Did(name) == \E i \in 1..Len(steps) : steps[i] = name

StepRank(name) ==
  CASE name = "setup" -> 1 [] name = "compose" -> 2 [] name = "prompt" -> 3
    [] name = "write" -> 4 [] name = "stage" -> 5 [] name = "diff" -> 6
    [] name = "commit" -> 7 [] name = "push" -> 8 [] OTHER -> 0

Logged(rec) == \E i \in 1..Len(log) : log[i] = rec

\* create_journal_entry has got past its skip test in this run, and an earlier
\* call wrote the file of the same date, which nobody has modified since
SecondCall ==
  /\ Did("compose")
  /\ raised.step # "compose"
  /\ FilePath(today) \in DOMAIN lastWrite
  /\ lastWrite[FilePath(today)].run < runs

\* C1: a second call of create_journal_entry on the calendar date of an entry
\* it has already written, the file not modified in between, returns the same
\* path, asks for no input and leaves the file's content and last-modified
\* time as they were.
C1_SecondCallSkips ==
  SecondCall =>
    /\ pc \notin {"prompt", "write"}
    /\ asked = 0
    /\ entry_path = FilePath(today)
    /\ files[FilePath(today)] = lastWrite[FilePath(today)].file

C1_Witness == SecondCall /\ pc = "stage" /\ now = 1

\* C2: when the staged diff is empty after staging the entry, the run returns
\* False, attempts neither a commit nor a push, and leaves the commit history
\* as it was when the run started.
C2_EmptyDiffNoCommit ==
  diffEmpty = "True" =>
    /\ pc = "done"
    /\ result = "False"
    /\ ~Did("commit")
    /\ ~Did("push")
    /\ pushAttempts = 0
    /\ commits = commits0

C2_Witness == diffEmpty = "True" /\ result = "False" /\ Did("stage")

\* C3: when the commit succeeds and there is no remote named "origin", no push
\* is attempted and the run returns True.
C3_NoOriginSucceeds ==
  (committed /\ "origin" \notin remotes) =>
    /\ pushAttempts = 0
    /\ ~Did("push")
    /\ pc \in {"push", "done"}
    /\ pc = "done" => result = "True"

C3_Witness == committed /\ "origin" \notin remotes /\ pc = "done" /\ result = "True"

\* C4 (as stated): whatever a step of the run raises, nothing propagates out
\* of commit_to_github: it returns False, and setup_repo returns None.
C4_NothingPropagates ==
  raised.step # "none" =>
    /\ result = "False"
    /\ raised.step = "setup" => repo = "None"

\* C4 (amended): an exception that derives from Exception, raised at any step,
\* does not propagate: setup_repo returns None and commit_to_github returns
\* False; a KeyboardInterrupt raised while input() blocks is not caught and
\* propagates out of commit_to_github and run_journal_bot.
C4_ExceptionsCaught ==
  raised.step # "none" =>
    IF raised.exc = "KeyboardInterrupt"
      THEN result = "raised"
      ELSE /\ result = "False"
           /\ pc = "done"
           /\ raised.step = "setup" => repo = "None"

C4_Witness == raised.step = "prompt" /\ raised.exc = "EOFError" /\ result = "False"

\* C5: a run with an empty staged diff logs "No changes to commit" at info
\* level and logs no record at error level, from run_journal_bot to its end.
C5_EmptyDiffNoErrorRecord ==
  (diffEmpty = "True" /\ pc = "done") =>
    /\ Logged(Info("No changes to commit"))
    /\ \A i \in 1..Len(log) : log[i].level # "ERROR"

\* setup_repo was called without a .git directory and returned a handle
FreshSetup == setupPre.called /\ ~setupPre.gitDir /\ repo = "handle"

HasInitialCommit ==
  /\ Len(commits) >= 1
  /\ commits[1].message = "Initial commit: Add README"
  /\ "README.md" \in DOMAIN commits[1].tree
  /\ commits[1].tree["README.md"] = README_TEXT

\* C6 (as stated): when setup_repo is called without a .git directory and
\* returns a handle, the repository is initialised, user.name and user.email
\* are set, README.md holds the fixed text and an initial commit contains it,
\* also when a README.md was already there.
C6_AlwaysSeeded ==
  FreshSetup =>
    /\ gitDir
    /\ config = Identity
    /\ "README.md" \in DOMAIN files
    /\ files["README.md"].content = README_TEXT
    /\ HasInitialCommit

\* C6 (amended): when setup_repo is called without a .git directory and
\* returns a handle, the repository is initialised and user.name and
\* user.email are set; if README.md was absent it now holds the fixed text and
\* an initial commit contains it; if README.md was already there it is left
\* as it was and setup_repo makes no commit.
C6_SeededUnlessReadme ==
  FreshSetup =>
    /\ gitDir
    /\ config = Identity
    /\ IF "README.md" \in DOMAIN setupPre.files
         THEN /\ files["README.md"] = setupPre.files["README.md"]
              /\ ~Logged(Info("Created README and made initial commit"))
              /\ \A i \in 1..Len(commits) : "README.md" \notin DOMAIN commits[i].tree
         ELSE /\ "README.md" \in DOMAIN files
              /\ files["README.md"].content = README_TEXT
              /\ HasInitialCommit

C6_Witness ==
  FreshSetup /\ "README.md" \in DOMAIN setupPre.files /\ pc = "compose"

\* a line is a number when all its characters are decimal digits
IsNumber(s) == s # <<>> /\ \A i \in 1..Len(s) : s[i] \in DecimalDigits

SaysDone(s) == Len(s) = 4 /\ Text(Lower(s)) = "done"

\* the selections the lines ins make, by the rules of the prompt loop
RECURSIVE ClaimedSelection(_, _)
ClaimedSelection(ins, acc) ==
  IF ins = <<>> \/ Len(acc) = MaxPrompts THEN acc
  ELSE LET x == Strip(Head(ins)) IN
    IF SaysDone(x) THEN acc
    ELSE IF IsNumber(x) /\ IntOf(x) \in 1..10
      THEN ClaimedSelection(Tail(ins), Append(acc, JOURNAL_PROMPTS[IntOf(x)]))
    ELSE IF x # <<>>
      THEN ClaimedSelection(Tail(ins), Append(acc, Text(x)))
    ELSE ClaimedSelection(Tail(ins), acc)

LoopEnded(ins) ==
  \/ Len(ClaimedSelection(ins, <<>>)) = MaxPrompts
  \/ \E i \in 1..Len(ins) : SaysDone(Strip(ins[i]))

\* input() itself returned every line asked for, and the write did not fail
LinesRead ==
  /\ Did("prompt")
  /\ ~(raised.step = "prompt" /\ raised.exc \in {"EOFError", "KeyboardInterrupt"})
  /\ raised.step # "write"

\* C7: the prompt loop takes every line: it stops at the first "done" or after
\* the 3rd selection, a number 1..10 selects that fixed prompt, any other
\* non-empty line is free text, an empty line is not counted; the file
\* written is the date heading, one sub-heading with placeholder per selection
\* in the order entered, and the footer line.
C7_PromptLoop ==
  LinesRead =>
    /\ raised.step = "none"
    /\ Len(selected_prompts) <= MaxPrompts
    /\ selected_prompts = ClaimedSelection(inputs, <<>>)
    /\ (pc = "prompt") = ~LoopEnded(inputs)
    /\ Did("write") =>
         files[entry_path].content =
           Content(DateStr(today), ClaimedSelection(inputs, <<>>),
                   TimestampStr(Now(files[entry_path].mtime)))

\* C8: the date in the message of the run's commit is the date_str that
\* create_journal_entry used for the entry of the run.
C8_MessageDateIsEntryDate ==
  committed =>
    commits[Len(commits)].message = "Add journal entry for " \o DateStr(today)

\* C9: the steps of a run come in the order setup, compose, (prompts, write,)
\* stage, diff, commit, push: nothing is composed or written without a handle
\* from setup_repo, nothing is staged before the entry is ready, no commit
\* before staging, no push before the run's commit succeeded; once a step has
\* raised the run is over and no later step has been executed.
C9_StepOrder ==
  /\ \A i, j \in 1..Len(steps) : i < j => StepRank(steps[i]) < StepRank(steps[j])
  /\ \A i \in 1..Len(steps) : StepRank(steps[i]) > 0
  /\ (Did("compose") \/ Did("prompt") \/ Did("write")) => (Did("setup") /\ repo = "handle")
  /\ Did("write") => Did("compose")
  /\ Did("stage") => (Did("compose") /\ entry_path \in DOMAIN files)
  /\ Did("diff") => Did("stage")
  /\ Did("commit") => Did("diff")
  /\ committed => Did("commit")
  /\ (Did("push") \/ pushAttempts > 0) => committed
  /\ raised.step # "none" =>
       /\ pc = "done"
       /\ result \in {"False", "raised"}
       /\ steps[Len(steps)] = raised.step

C9_Witness ==
  /\ pc = "done"
  /\ result = "True"
  /\ steps = <<"setup", "compose", "prompt", "write", "stage", "diff", "commit", "push">>

\* C10: when the push to "origin" raises after the commit has succeeded, the
\* run returns False, the commit of the run stays in the history, and the
\* push has been attempted once.
C10_PushFailureKeepsCommit ==
  raised.step = "push" =>
    /\ "origin" \in remotes
    /\ result = "False"
    /\ pc = "done"
    /\ committed
    /\ Len(commits) > Len(commits0)
    /\ commits[Len(commits)].tree = index
    /\ entry_path \in DOMAIN commits[Len(commits)].tree
    /\ pushed < Len(commits)
    /\ pushAttempts = 1

C10_Witness == raised.step = "push" /\ result = "False" /\ committed

====
